---- MODULE Spec2Model ----
\* Model of src/server/rb87_mot_model.py: the magneto-optical-trap simulation
\* simulate_mot with its helpers transition_between_levels,
\* repumper_effect_on_levels and scattering_force.
\*
\* Units.  Reals are modelled by integers: lengths in units of the beam
\* radius, velocities in units of one velocity quantum, temperatures in units
\* of mass_Rb / k times the squared velocity quantum.  A mean is held exactly
\* as (sum * Scale) \div count, Scale being divisible by every count that
\* occurs; NaN is a value of its own.  numpy arrays that the code mutates in
\* place and stores by reference live in `heap` and are named by object ids.
EXTENDS Integers, Sequences, FiniteSets, TLC

\* ---------------------------------------------------------------- bounds
MaxAtoms == 2
MaxTime == 2
MaxDt == 1
MaxSims == 2
MaxEnsemble == 2
MaxVel == 0
MaxAccel == 1
MaxCallAtoms == 2
MaxCallTemp == 1
MaxCallVel == 1

\* ------------------------------------------------------------ constants
beam_radius == 1
T0 == 360
ExpUnderflow == 745
NaN == -1000000

Max2(a, b) == IF a >= b THEN a ELSE b

RECURSIVE Fact(_)
Fact(n) == IF n <= 1 THEN 1 ELSE n * Fact(n - 1)

MaxDim == Max2(Max2(MaxAtoms, MaxTime), Max2(MaxSims, MaxCallAtoms))

Scale == Fact(MaxDim)

Abs(x) == IF x < 0 THEN 0 - x ELSE x

\* ------------------------------------------------------------- numpy
RECURSIVE SumSeq(_)
SumSeq(s) == IF Len(s) = 0 THEN 0 ELSE Head(s) + SumSeq(Tail(s))

\* np.mean of a one-dimensional slice: NaN for an empty slice, NaN as soon as
\* one element is NaN.
np_mean(s) ==
  IF Len(s) = 0 THEN NaN
  ELSE IF \E k \in 1..Len(s) : s[k] = NaN THEN NaN
  ELSE (SumSeq(s) * Scale) \div Len(s)

\* arr[mask]: the elements of arr whose mask entry is TRUE, in order.
RECURSIVE Select(_, _)
Select(arr, mask) ==
  IF Len(arr) = 0 THEN <<>>
  ELSE IF Head(mask) THEN <<Head(arr)>> \o Select(Tail(arr), Tail(mask))
  ELSE Select(Tail(arr), Tail(mask))

\* np.arange(0, time_max, dt) for dt # 0: ceil(time_max / dt) points k * dt
\* (dt = 0 raises and yields no points).
ArangeLen(stop, step) ==
  LET a == IF step < 0 THEN 0 - stop ELSE stop
      b == Abs(step)
  IN IF a <= 0 \/ b = 0 THEN 0 ELSE (a + b - 1) \div b

np_arange(stop, step) == [k \in 1..ArangeLen(stop, step) |-> (k - 1) * step]

\* np.bincount(levels, minlength=4)
np_bincount(lv) ==
  [b \in 1..4 |-> Cardinality({j \in 1..Len(lv) : lv[j] = b - 1})]

\* -------------------------------------------- transition_between_levels
\* The table in the iteration order of the dict (insertion order).
transition_probabilities ==
  << <<0, 1>>, <<1, 2>>, <<2, 3>>, <<1, 0>>, <<2, 1>>, <<3, 2>> >>

\* transition_prob > 0.  prob * exp(-|start-end| * temperature / k) * dt with
\* k = 1.38e-23: the exponential is 0.0 in double precision for every
\* temperature the model can represent except 0.
TransitionProbPositive(temperature, dt) == temperature = 0 /\ dt > 0

\* The inner loop for one atom.  positive says whether transition_prob > 0,
\* below[p] whether the p-th uniform draw is small enough to fall below a
\* positive transition_prob.  The result is the sequence of values assigned
\* to levels[i], in order.
\* Variant: the comparison of levels[i] with start is left out.
RECURSIVE TransitionAtomFrom_nocheck(_, _, _, _)
TransitionAtomFrom_nocheck(level, positive, below, p) ==
  IF p > Len(transition_probabilities) THEN <<>>
  ELSE LET end == transition_probabilities[p][2]
       IN IF below[p] /\ positive
          THEN <<end>> \o TransitionAtomFrom_nocheck(end, positive, below, p + 1)
          ELSE TransitionAtomFrom_nocheck(level, positive, below, p + 1)

RECURSIVE TransitionAtomFrom(_, _, _, _)
TransitionAtomFrom(level, positive, below, p) ==
  IF p > Len(transition_probabilities) THEN <<>>
  ELSE LET start == transition_probabilities[p][1]
           end == transition_probabilities[p][2]
       IN IF below[p] /\ positive /\ level = start
          THEN <<end>> \o TransitionAtomFrom(end, positive, below, p + 1)
          ELSE TransitionAtomFrom(level, positive, below, p + 1)

TransitionAtom(level, positive, below) ==
  TransitionAtomFrom(level, positive, below, 1)

DrawsPerAtom == [1..Len(transition_probabilities) -> BOOLEAN]

\* Every assignment sequence one atom can go through, over all draws.
AtomTraces ==
  [level \in 0..3 |-> [positive \in BOOLEAN |->
     {TransitionAtom(level, positive, below) : below \in DrawsPerAtom}]]

FinalLevel(level, trace) == IF Len(trace) = 0 THEN level ELSE trace[Len(trace)]

\* The outer loop: atoms are independent, each with its own six draws.
\* The set of arrays of per-atom assignment sequences the call can produce.
transition_between_levels(lv, temperature, dt) ==
  LET positive == TransitionProbPositive(temperature, dt)
  IN {tr \in [1..Len(lv) -> UNION {AtomTraces[l][positive] : l \in 0..3}] :
        \A j \in 1..Len(lv) : tr[j] \in AtomTraces[lv[j]][positive]}

TransitionResult(lv, tr) == [j \in 1..Len(lv) |-> FinalLevel(lv[j], tr[j])]

\* -------------------------------------------- repumper_effect_on_levels
\* transition_prob[j] > 0.  0.6 * I / I_s * exp(-v^2 / (2 k temp_safe / m)):
\* the exponential underflows to 0.0 when its argument exceeds ExpUnderflow;
\* temp_safe = max(temperature, 1e-12) is below the model's resolution when
\* temperature is 0, and then only an atom at rest has a positive probability.
RepumpProbPositive(v, temperature) ==
  IF temperature <= 0 THEN v = 0
  ELSE v * v * Scale <= 2 * ExpUnderflow * temperature

\* Variant: the leak mask is taken from the copy being written, not from the
\* input array.
repumper_leak_on_copy(lv, vel, temperature, transitions, leaks) ==
  LET hit == [j \in 1..Len(lv) |-> transitions[j] /\ RepumpProbPositive(vel[j], temperature)]
      promoted == [j \in 1..Len(lv) |-> IF lv[j] = 0 /\ hit[j] THEN 1 ELSE lv[j]]
  IN [j \in 1..Len(lv) |->
        IF (promoted[j] = 1 \/ promoted[j] = 2) /\ leaks[j] THEN 3 ELSE promoted[j]]

\* transitions[j] and leaks[j] say whether the j-th draw of each np.random.rand
\* vector is small enough to fall below a positive probability.
repumper_effect_on_levels(lv, vel, temperature, transitions, leaks) ==
  LET mask_F1 == [j \in 1..Len(lv) |-> lv[j] = 0]
      hit == [j \in 1..Len(lv) |-> transitions[j] /\ RepumpProbPositive(vel[j], temperature)]
      promoted == [j \in 1..Len(lv) |-> IF mask_F1[j] /\ hit[j] THEN 1 ELSE lv[j]]
      mask_F2_F3 == [j \in 1..Len(lv) |-> lv[j] = 1 \/ lv[j] = 2]
  IN [j \in 1..Len(lv) |-> IF mask_F2_F3[j] /\ leaks[j] THEN 3 ELSE promoted[j]]

\* -------------------------------------------------------- simulate_mot
VARIABLES
  n_atoms, time_max, dt, n_simulations,
  pc, err, sim, i, times,
  heap, velocities, positions, levels, T_avg_trapped,
  velocities_to_avg, positions_to_avg, temperatures,
  velocity_distributions, levels_distributions,
  positions_all, velocities_all, temperatures_all,
  velocity_distributions_all, level_populations_all,
  ret,
  call, arg_levels, arg_velocities, arg_temperature, arg_dt,
  ret_levels, ret_trace

cfgvars == <<n_atoms, time_max, dt, n_simulations>>

runvars == <<heap, velocities, positions, levels, T_avg_trapped,
             velocities_to_avg, positions_to_avg, temperatures,
             velocity_distributions, levels_distributions>>

allvars == <<positions_all, velocities_all, temperatures_all,
             velocity_distributions_all, level_populations_all>>

callvars == <<call, arg_levels, arg_velocities, arg_temperature, arg_dt,
              ret_levels, ret_trace>>

vars == <<cfgvars, pc, err, sim, i, times, runvars, allvars, ret, callvars>>

\* The arguments of simulate_mot.  MaxEnsemble bounds the number of initial
\* atoms drawn over all runs.
Configs ==
  {c \in [n_atoms : -1..MaxAtoms, time_max : -1..MaxTime,
          dt : -1..MaxDt, n_simulations : -1..MaxSims] :
     Max2(c.n_atoms, 0) * Max2(c.n_simulations, 0) <= MaxEnsemble}

\* np.random.normal(0, sqrt(k T0 / m), n), np.random.uniform(-R, R, n) and
\* np.random.choice([0,1,2,3], n, p): the values one atom can be given.
InitVelocities == (0 - MaxVel)..MaxVel

InitPositions == (0 - beam_radius)..(beam_radius - 1)

InitLevels == 0..3

\* forces / mass_Rb * dt per unit of dt: scattering_force depends on three
\* noise draws, so the velocity gained per unit of time is one of these.
ForceDraws == 0..MaxAccel

NoResult ==
  [times |-> <<>>, avg_positions |-> <<>>, avg_velocities |-> <<>>,
   avg_temperatures |-> <<>>, avg_level_populations |-> <<>>,
   avg_velocity_distributions |-> <<>>]

CallIdle ==
  /\ call = "none"
  /\ arg_levels = <<>>
  /\ arg_velocities = <<>>
  /\ arg_temperature = 0
  /\ arg_dt = 1
  /\ ret_levels = <<>>
  /\ ret_trace = <<>>

SimIdle(p) ==
  /\ pc = p
  /\ err = ""
  /\ sim = 0
  /\ i = 0
  /\ times = <<>>
  /\ heap = <<>>
  /\ velocities = 0
  /\ positions = 0
  /\ levels = <<>>
  /\ T_avg_trapped = T0
  /\ velocities_to_avg = <<>>
  /\ positions_to_avg = <<>>
  /\ temperatures = <<>>
  /\ velocity_distributions = <<>>
  /\ levels_distributions = <<>>
  /\ positions_all = <<>>
  /\ velocities_all = <<>>
  /\ temperatures_all = <<>>
  /\ velocity_distributions_all = <<>>
  /\ level_populations_all = <<>>
  /\ ret = NoResult

\* Entry of simulate_mot: the five result lists are empty, the run loop has
\* not started.
Init ==
  /\ \E c \in Configs :
       /\ n_atoms = c.n_atoms
       /\ time_max = c.time_max
       /\ dt = c.dt
       /\ n_simulations = c.n_simulations
  /\ SimIdle("loop")
  /\ CallIdle

Fail(e) ==
  /\ pc' = "error"
  /\ err' = e

\* Variant: the positions advance with the velocities of before the update.
Integrate_old_velocity(vel, pos, accel, step) ==
  [velocities |-> [j \in 1..Len(vel) |-> vel[j] + accel[j] * step],
   positions |-> [j \in 1..Len(pos) |-> pos[j] + vel[j] * step]]

\* velocities += forces / mass_Rb * dt; positions += velocities * dt
Integrate(vel, pos, accel, step) ==
  LET v == [j \in 1..Len(vel) |-> vel[j] + accel[j] * step]
  IN [velocities |-> v,
      positions |-> [j \in 1..Len(pos) |-> pos[j] + v[j] * step]]

\* np.nanmean(np.where(levels == L, velocities, np.nan)) guarded by np.any
LevelMeanVelocity(lv, vel, L) ==
  IF \E j \in 1..Len(lv) : lv[j] = L
  THEN np_mean(Select(vel, [j \in 1..Len(lv) |-> lv[j] = L]))
  ELSE NaN

\* The list appended to velocity_distributions.
LevelVelocities(lv, vel) ==
  <<LevelMeanVelocity(lv, vel, 1), LevelMeanVelocity(lv, vel, 2),
    LevelMeanVelocity(lv, vel, 3), LevelMeanVelocity(lv, vel, 4)>>

\* Variant: the trapped mask is not applied.
TrappedTemperature_unmasked(pos, vel) ==
  IF Len(vel) > 0
  THEN np_mean([k \in 1..Len(vel) |-> vel[k] * vel[k]])
  ELSE 0

\* T_avg_trapped: mean(mass_Rb * v^2) / k over the atoms inside the beam.
TrappedTemperature(pos, vel) ==
  LET trapped_atoms == [j \in 1..Len(pos) |-> Abs(pos[j]) < beam_radius]
      trapped_velocities == Select(vel, trapped_atoms)
  IN IF Len(trapped_velocities) > 0
     THEN np_mean([k \in 1..Len(trapped_velocities) |->
                     trapped_velocities[k] * trapped_velocities[k]])
     ELSE 0

\* level_counts / np.sum(level_counts); 0 / 0 is NaN.
LevelDistribution(lv) ==
  LET level_counts == np_bincount(lv)
      total == SumSeq(level_counts)
  IN [b \in 1..Len(level_counts) |->
        IF total = 0 THEN NaN ELSE (level_counts[b] * Scale) \div total]

\* What repumper_effect_on_levels can return, over its two vectors of draws.
RepumperResults(lv, vel, temperature) ==
  {repumper_effect_on_levels(lv, vel, temperature, transitions, leaks) :
     transitions \in [1..Len(lv) -> BOOLEAN], leaks \in [1..Len(lv) -> BOOLEAN]}

\* Lines 123-135: a new run starts.
BeginRun ==
  /\ pc = "loop"
  /\ sim < n_simulations
  /\ IF dt = 0
     THEN /\ Fail("arange")
          /\ UNCHANGED <<times, runvars, i>>
     ELSE IF n_atoms < 0
     THEN /\ Fail("ValueError")
          /\ times' = np_arange(time_max, dt)
          /\ UNCHANGED <<runvars, i>>
     ELSE \E v0 \in [1..n_atoms -> InitVelocities],
             p0 \in [1..n_atoms -> InitPositions],
             l0 \in [1..n_atoms -> InitLevels] :
            /\ times' = np_arange(time_max, dt)
            /\ velocities' = Len(heap) + 1
            /\ positions' = Len(heap) + 2
            /\ heap' = heap \o <<v0, p0>>
            /\ levels' = l0
            /\ T_avg_trapped' = T0
            /\ velocities_to_avg' = <<>>
            /\ positions_to_avg' = <<>>
            /\ temperatures' = <<>>
            /\ velocity_distributions' = <<>>
            /\ levels_distributions' = <<>>
            /\ i' = 0
            /\ pc' = "step"
            /\ err' = err
  /\ UNCHANGED <<cfgvars, sim, allvars, ret, callvars>>

\* Lines 137-205: one iteration of the time loop.
Step ==
  /\ pc = "step"
  /\ i < Len(times)
  /\ \E accel \in [1..Len(levels) -> ForceDraws] :
       LET upd == Integrate(heap[velocities], heap[positions], accel, dt)
           heap1 == [heap EXCEPT ![velocities] = upd.velocities]
           heap2 == [heap1 EXCEPT ![positions] = upd.positions]
           temperature == TrappedTemperature(heap2[positions], heap2[velocities])
       IN \E levels_ \in RepumperResults(levels, heap2[velocities], temperature) :
          \E tr \in transition_between_levels(levels_, temperature, dt) :
            /\ heap' = heap2
            /\ velocities_to_avg' = Append(velocities_to_avg, velocities)
            /\ positions_to_avg' = Append(positions_to_avg, positions)
            /\ velocity_distributions' =
                 Append(velocity_distributions,
                        LevelVelocities(levels, heap2[velocities]))
            /\ T_avg_trapped' = temperature
            /\ temperatures' = Append(temperatures, temperature)
            /\ levels' = TransitionResult(levels_, tr)
            /\ levels_distributions' =
                 Append(levels_distributions, LevelDistribution(levels'))
  /\ i' = i + 1
  /\ UNCHANGED <<cfgvars, pc, err, sim, times, velocities, positions,
                 allvars, ret, callvars>>

\* Lines 223-227: the run's lists are appended to the result lists.
EndRun ==
  /\ pc = "step"
  /\ i = Len(times)
  /\ velocities_all' = Append(velocities_all, velocities_to_avg)
  /\ positions_all' = Append(positions_all, positions_to_avg)
  /\ temperatures_all' = Append(temperatures_all, temperatures)
  /\ level_populations_all' = Append(level_populations_all, levels_distributions)
  /\ velocity_distributions_all' =
       Append(velocity_distributions_all, velocity_distributions)
  /\ sim' = sim + 1
  /\ pc' = "loop"
  /\ UNCHANGED <<cfgvars, err, i, times, runvars, ret, callvars>>

\* np.mean(a, axis=1) of a list of runs, each a list of references to arrays:
\* the mean over the step axis, one row per run.
MeanAxis1(all, hp) ==
  [s \in 1..Len(all) |->
     [j \in 1..Len(hp[all[s][1]]) |->
        np_mean([k \in 1..Len(all[s]) |-> hp[all[s][k]][j]])]]

\* np.mean(a, axis=0) of a list of runs, each a list of scalars.
MeanAxis0(all) ==
  [k \in 1..Len(all[1]) |-> np_mean([s \in 1..Len(all) |-> all[s][k]])]

\* np.mean(a, axis=0) of a list of runs, each a list of vectors.
MeanAxis0Vec(all) ==
  [k \in 1..Len(all[1]) |->
     [b \in 1..Len(all[1][k]) |->
        np_mean([s \in 1..Len(all) |-> all[s][k][b]])]]

\* Lines 229-239: the averages and the return.
Finish ==
  /\ pc = "loop"
  /\ sim >= n_simulations
  /\ IF Len(positions_all) = 0
     THEN /\ Fail("AxisError")
          /\ ret' = ret
     ELSE IF Len(times) = 0
     THEN /\ Fail("IndexError")
          /\ ret' = ret
     ELSE /\ pc' = "done"
          /\ err' = err
          /\ ret' = [times |-> times,
                     avg_positions |-> MeanAxis1(positions_all, heap),
                     avg_velocities |-> MeanAxis1(velocities_all, heap),
                     avg_temperatures |-> MeanAxis0(temperatures_all),
                     avg_level_populations |-> MeanAxis0Vec(level_populations_all),
                     avg_velocity_distributions |->
                       MeanAxis0Vec(velocity_distributions_all)]
  /\ UNCHANGED <<cfgvars, sim, i, times, runvars, allvars, callvars>>

Next == BeginRun \/ Step \/ EndRun \/ Finish

Spec == Init /\ [][Next]_vars

\* ------------------------------------------ the level functions, called
\* directly: Init draws the arguments, one action per function applies it.
CallArgs ==
  UNION {[levels : [1..n -> 0..3], velocities : [1..n -> 0..MaxCallVel],
          temperature : 0..MaxCallTemp, dt : -1..MaxDt] : n \in 0..MaxCallAtoms}

InitCalls ==
  /\ n_atoms = 0
  /\ time_max = 0
  /\ dt = 0
  /\ n_simulations = 0
  /\ SimIdle("idle")
  /\ call = "ready"
  /\ \E a \in CallArgs :
       /\ arg_levels = a.levels
       /\ arg_velocities = a.velocities
       /\ arg_temperature = a.temperature
       /\ arg_dt = a.dt
  /\ ret_levels = <<>>
  /\ ret_trace = <<>>

\* levels_ = repumper_effect_on_levels(levels, velocities, I, temperature)
CallRepumper ==
  /\ call = "ready"
  /\ \E transitions \in [1..Len(arg_levels) -> BOOLEAN],
        leaks \in [1..Len(arg_levels) -> BOOLEAN] :
       ret_levels' = repumper_effect_on_levels(arg_levels, arg_velocities,
                                               arg_temperature, transitions, leaks)
  /\ call' = "repumper"
  /\ UNCHANGED <<cfgvars, pc, err, sim, i, times, runvars, allvars, ret,
                 arg_levels, arg_velocities, arg_temperature, arg_dt, ret_trace>>

\* levels_ = transition_between_levels(levels, temperature, dt); ret_trace
\* keeps, per atom, the values the call assigned to levels[i].
CallTransition ==
  /\ call = "ready"
  /\ \E tr \in transition_between_levels(arg_levels, arg_temperature, arg_dt) :
       /\ ret_trace' = tr
       /\ ret_levels' = TransitionResult(arg_levels, tr)
  /\ call' = "transition"
  /\ UNCHANGED <<cfgvars, pc, err, sim, i, times, runvars, allvars, ret,
                 arg_levels, arg_velocities, arg_temperature, arg_dt>>

NextCalls == CallRepumper \/ CallTransition

SpecCalls == InitCalls /\ [][NextCalls]_vars

\* ================================================================ claims
RECURSIVE SumOver(_, _)
SumOver(S, f) ==
  IF S = {} THEN 0
  ELSE LET x == CHOOSE y \in S : TRUE IN f[x] + SumOver(S \ {x}, f)

Last(s) == s[Len(s)]

\* The position of the pair (a, b) in the transition table, 0 if absent.
PairIndex(a, b) ==
  IF \E p \in 1..Len(transition_probabilities) : transition_probabilities[p] = <<a, b>>
  THEN CHOOSE p \in 1..Len(transition_probabilities) : transition_probabilities[p] = <<a, b>>
  ELSE 0

\* ---- C3
\* C3 as stated: in one call of transition_between_levels every atom
\* undergoes at most one table transition (first match wins).
C3_FirstMatchWins ==
  call = "transition" =>
    \A j \in 1..Len(arg_levels) : Len(ret_trace[j]) <= 1

\* C3 amended: the pairs are checked per atom in the fixed table order, each
\* against the atom's current level, a level changed earlier in the call
\* included; every change follows a table pair from the current level, the
\* pairs used come in increasing table order and start from distinct levels
\* (of the pairs that share a start level only the first matching one is
\* applied), an atom changes level at most four times per call, and the
\* returned level is the last one assigned.
C3_ChainedTransitions ==
  call = "transition" =>
    /\ Len(ret_levels) = Len(arg_levels)
    /\ \A j \in 1..Len(arg_levels) :
         LET chain == <<arg_levels[j]>> \o ret_trace[j]
         IN /\ Len(ret_trace[j]) <= 4
            /\ \A m \in 1..Len(ret_trace[j]) : PairIndex(chain[m], chain[m + 1]) > 0
            /\ \A m \in 1..(Len(ret_trace[j]) - 1) :
                 PairIndex(chain[m], chain[m + 1]) < PairIndex(chain[m + 1], chain[m + 2])
            /\ \A m, q \in 1..Len(ret_trace[j]) : m < q => chain[m] # chain[q]
            /\ ret_levels[j] = chain[Len(chain)]
            /\ (arg_temperature # 0 \/ arg_dt <= 0) => ret_trace[j] = <<>>

C3_Witness ==
  /\ call = "transition"
  /\ \E j \in 1..Len(arg_levels) :
       /\ arg_levels[j] = 0
       /\ ret_trace[j] = <<1, 2, 3, 2>>

\* ---- C10
\* C10: in one call of repumper_effect_on_levels the result level of each
\* atom is decided by its input level: 0 stays 0 or becomes 1; 1 and 2 stay
\* or become 3; 3 is unchanged; an atom promoted 0 -> 1 does not leak to 3.
C10_RepumperByInputLevel ==
  call = "repumper" =>
    /\ Len(ret_levels) = Len(arg_levels)
    /\ \A j \in 1..Len(arg_levels) :
         /\ arg_levels[j] = 0 => ret_levels[j] \in {0, 1}
         /\ arg_levels[j] \in {1, 2} => ret_levels[j] \in {arg_levels[j], 3}
         /\ arg_levels[j] = 3 => ret_levels[j] = 3

C10_Witness ==
  /\ call = "repumper"
  /\ \E j, m \in 1..Len(arg_levels) :
       /\ arg_levels[j] = 0
       /\ ret_levels[j] = 1
       /\ arg_levels[m] = 1
       /\ ret_levels[m] = 3

\* ---- C1
\* The mean over the runs of what each run recorded at step k for atom j.
RunMeanAt(all, k, j) == np_mean([s \in 1..Len(all) |-> heap[all[s][k]][j]])

\* C1: every returned averaged series has one entry per time step, aligned
\* with times, and its entry at step k (and atom j) is the mean over the runs
\* of the value each run recorded at step k (atom j).
C1_AveragedPerStep ==
  pc = "done" =>
    /\ Len(ret.avg_temperatures) = Len(ret.times)
    /\ Len(ret.avg_level_populations) = Len(ret.times)
    /\ Len(ret.avg_velocity_distributions) = Len(ret.times)
    /\ \A k \in 1..Len(ret.times) :
         /\ ret.avg_temperatures[k] =
              np_mean([s \in 1..n_simulations |-> temperatures_all[s][k]])
         /\ \A b \in 1..4 :
              /\ ret.avg_level_populations[k][b] =
                   np_mean([s \in 1..n_simulations |-> level_populations_all[s][k][b]])
              /\ ret.avg_velocity_distributions[k][b] =
                   np_mean([s \in 1..n_simulations |-> velocity_distributions_all[s][k][b]])
    /\ Len(ret.avg_positions) = Len(ret.times)
    /\ Len(ret.avg_velocities) = Len(ret.times)
    /\ \A k \in 1..Len(ret.times) :
         /\ Len(ret.avg_positions[k]) = n_atoms
         /\ Len(ret.avg_velocities[k]) = n_atoms
         /\ \A j \in 1..n_atoms :
              /\ ret.avg_positions[k][j] = RunMeanAt(positions_all, k, j)
              /\ ret.avg_velocities[k][j] = RunMeanAt(velocities_all, k, j)

\* ---- C2
\* C2: no step changes a position/velocity snapshot that was already
\* recorded: what the k-th entry of the per-run series holds stays what it was.
C2_SnapshotsKept ==
  [][/\ \A k \in 1..Len(positions_to_avg) :
          heap'[positions_to_avg[k]] = heap[positions_to_avg[k]]
     /\ \A k \in 1..Len(velocities_to_avg) :
          heap'[velocities_to_avg[k]] = heap[velocities_to_avg[k]]]_vars

\* ---- C4
StepTaken == pc = "step" /\ i' = i + 1

AtomsAt(L) == {j \in 1..Len(levels) : levels[j] = L}

\* C4: the vector recorded at a step has one entry per level 0, 1, 2, 3:
\* entry L is the mean velocity of the atoms at level L, NaN exactly when no
\* atom is at level L.
C4_LevelVelocitiesPerLevel ==
  [][StepTaken =>
       LET rec == Last(velocity_distributions')
       IN /\ Len(rec) = 4
          /\ \A L \in 0..3 :
               /\ (rec[L + 1] = NaN) <=> (AtomsAt(L) = {})
               /\ AtomsAt(L) # {} =>
                    rec[L + 1] * Cardinality(AtomsAt(L)) =
                      Scale * SumOver(AtomsAt(L), heap'[velocities])]_vars

\* ---- C5
InvalidConfig == n_atoms <= 0 \/ time_max <= 0 \/ dt <= 0 \/ n_simulations <= 0

\* C5: with n_atoms, time_max, dt or n_simulations zero or negative no
\* initial ensemble is drawn, no step is executed and no result is returned.
C5_InvalidConfigFailsFast ==
  InvalidConfig =>
    /\ Len(heap) = 0
    /\ pc # "step"
    /\ Len(temperatures_all) = 0
    /\ pc # "done"

\* ---- C6
\* C6: at every step of every run positions, velocities and levels have
\* length n_atoms, every level is one of 0..3, and every recorded population
\* vector has 4 entries that sum to 1.
C6_ShapeAndConservation ==
  pc = "step" =>
    /\ Len(heap[positions]) = n_atoms
    /\ Len(heap[velocities]) = n_atoms
    /\ Len(levels) = n_atoms
    /\ \A j \in 1..Len(levels) : levels[j] \in 0..3
    /\ \A k \in 1..Len(levels_distributions) :
         /\ Len(levels_distributions[k]) = 4
         /\ \A b \in 1..4 : levels_distributions[k][b] # NaN
         /\ SumSeq(levels_distributions[k]) = Scale

\* ---- C7
TrappedNow(pos) == {j \in 1..Len(pos) : Abs(pos[j]) < beam_radius}

\* C7: the temperature recorded at a step is >= 0, is the mean of v^2 over
\* the atoms with |position| < beam_radius after the step's update, and is
\* exactly 0, not NaN, when there is no such atom.
C7_TrappedTemperature ==
  [][StepTaken =>
       LET t == Last(temperatures')
           pos == heap'[positions]
           vel == heap'[velocities]
           sq == [j \in 1..Len(vel) |-> vel[j] * vel[j]]
       IN /\ t # NaN
          /\ t >= 0
          /\ TrappedNow(pos) = {} => t = 0
          /\ t * Cardinality(TrappedNow(pos)) = Scale * SumOver(TrappedNow(pos), sq)
          /\ \A k \in 1..Len(temperatures) : temperatures'[k] = temperatures[k]]_vars

\* A step has left a moving atom outside the beam and no atom inside it.
C7_Witness ==
  /\ pc = "step"
  /\ i >= 1
  /\ n_atoms = MaxAtoms
  /\ TrappedNow(heap[positions]) = {}
  /\ \E j \in 1..n_atoms : heap[velocities][j] # 0
  /\ Last(temperatures) = 0

\* ---- C9
\* C9: a step updates the velocities from the force, then the positions with
\* the new velocities, then computes the trapped temperature from the
\* updated arrays, then applies the repumper, then the table transitions to
\* the repumper's result, both with this temperature, and records the
\* populations of the levels after both.
C9_StepOrder ==
  [][StepTaken =>
       LET vel == heap'[velocities]
           pos == heap'[positions]
           sq == [j \in 1..Len(vel) |-> vel[j] * vel[j]]
           t == T_avg_trapped'
       IN /\ \E accel \in [1..Len(levels) -> ForceDraws] :
               \A j \in 1..Len(levels) :
                  vel[j] = heap[velocities][j] + accel[j] * dt
          /\ \A j \in 1..Len(levels) : pos[j] = heap[positions][j] + vel[j] * dt
          /\ t * Max2(Cardinality(TrappedNow(pos)), 1) = Scale * SumOver(TrappedNow(pos), sq)
          /\ Last(temperatures') = t
          /\ \E r \in RepumperResults(levels, vel, t) :
               \E tr \in transition_between_levels(r, t, dt) :
                  levels' = TransitionResult(r, tr)
          /\ \A b \in 1..4 :
               Last(levels_distributions')[b] * Len(levels) =
                 Scale * Cardinality({j \in 1..Len(levels) : levels'[j] = b - 1})]_vars

\* Two steps done: the atoms moved with a velocity gained in a step, and the
\* levels changed between the two recorded populations.
C9_Witness ==
  /\ pc = "step"
  /\ i = 2
  /\ n_atoms >= 1
  /\ \E j \in 1..n_atoms : heap[velocities][j] # 0
  /\ levels_distributions[1] # levels_distributions[2]
  /\ temperatures[1] # temperatures[2]

====
